---- MODULE Spec2Model ----
(***************************************************************************)
(* A model of package rlog (src/rlog.go): the process-wide handler slot,   *)
(* the shared default logger, the loggers GetLogger allocates, the four    *)
(* levelled methods and doLog.                                             *)
(*                                                                         *)
(* A LogHandler is a Go interface value: two machine words, the type word  *)
(* (tab) and the data word (data).  The nil interface has both words nil   *)
(* and `x == nil` tests the type word.  A handler h installed by the       *)
(* application is the whole value [tab |-> h, data |-> h].                 *)
(***************************************************************************)
EXTENDS Integers, Sequences, FiniteSets, TLC

VARIABLES
    default_handler,  \* var _default_handler LogHandler          (rlog.go:17)
    heap,             \* the _r_logger objects; heap[DefaultRef] is _default_r_log
    returned,         \* the references handed out by GetLogger / GetDefaultLogger
    installedAt,      \* per logger of the heap: the slot's value when GetLogger made it
    defaultRets,      \* the first and the latest reference GetDefaultLogger handed out
    obs,              \* what the last public call did: result, panic, handler calls
    call,             \* SpecLog: the one call drawn by Init, still to be made
    setter,           \* SpecConc: the SetRLogDefaultHandler call in progress
    getters           \* SpecConc: the retrievals in progress, one per goroutine

vars == <<default_handler, heap, returned, installedAt, defaultRets, obs, call, setter,
          getters>>

---------------------------------------------------------------------------
\* Constants of the package

ATTR_KEY_MODULE == "module"
DEFAULT_MODULE_NAME == "default"

LogLevelDebug == -1
LogLevelInfo == 0
LogLevelWarn == 1
LogLevelError == 2
LogLevel == {LogLevelDebug, LogLevelInfo, LogLevelWarn, LogLevelError}

---------------------------------------------------------------------------
\* Bounds and input domains

MaxLoggers == 2      \* loggers allocated by GetLogger in the lifecycle specification
MaxSeqArgs == 2      \* longest variadic list of an emission in the lifecycle specification
MaxArgs == 4         \* longest variadic list in the per-call specification
MaxSets == 2         \* SetRLogDefaultHandler calls of the concurrent specification
NumGetters == 1      \* goroutines retrieving a logger in the concurrent specification

Handlers == {"h1", "h2"}            \* the handlers the application may install
Modules == {"ext", DEFAULT_MODULE_NAME}
Msgs == {"started", "x"}
SeqMsgs == {"started"}              \* the messages of the lifecycle specification
SeqModules == {"ext"}               \* the module names of the lifecycle specification

\* Values of Go type `any`: a string, or a value of another dynamic type.
StrVal(s) == [kind |-> "string", val |-> s]
IntVal(s) == [kind |-> "int", val |-> s]
HandlerVal(h) == [kind |-> "LogHandler", val |-> h]
Vals == {StrVal("port"), IntVal("8080")}

ArgListsUpTo(n) == UNION {[1..k -> Vals] : k \in 0..n}

---------------------------------------------------------------------------
\* Data model

NilWord == "nil"
\* The interface value holding handler h; LogHandler(NilWord) is the nil interface.
LogHandler(h) == [tab |-> h, data |-> h]
NilHandler == LogHandler(NilWord)
\* `h == nil` on an interface value compares the type word.
IsNil(h) == h.tab = NilWord

LogAttr(k, v) == [Key |-> k, Value |-> v]
\* The zero LogAttr, as make([]LogAttr, size) fills the slice.
ZeroAttr == LogAttr("", [kind |-> "nil", val |-> ""])
LogRecord(msg, attrs, level) == [Message |-> msg, Attrs |-> attrs, Level |-> level]

r_logger(module, handler) == [module |-> module, handler |-> handler]

\* _default_r_log is the first object of the heap.
DefaultRef == 1

---------------------------------------------------------------------------
\* doLog

\* doLog with the loop stopping before a key that has no value.
RECURSIVE FillAttrs_SkipsLoneKey(_, _, _)
FillAttrs_SkipsLoneKey(attrs, args, i) ==
    IF ~(i + 1 < Len(args)) THEN [panic |-> "none", attrs |-> attrs]
    ELSE IF args[i + 1].kind # "string"
         THEN [panic |-> "type_assertion", attrs |-> attrs]
    ELSE FillAttrs_SkipsLoneKey([attrs EXCEPT ![(i \div 2) + 1] =
                                     LogAttr(args[i + 1].val, args[i + 2])],
                                args, i + 2)

\* The loop of doLog (rlog.go:63-68) from index i (0-based, as in the code) with
\* the slice attrs built so far.  args[i].(string) panics when the key is not a
\* string; args[i+1] panics when the list ends after the key.  The operands of
\* the composite literal are evaluated in the order written.
RECURSIVE FillAttrs(_, _, _)
FillAttrs(attrs, args, i) ==
    IF ~(i < Len(args)) THEN [panic |-> "none", attrs |-> attrs]
    ELSE IF args[i + 1].kind # "string"
         THEN [panic |-> "type_assertion", attrs |-> attrs]
    ELSE IF ~(i + 1 < Len(args))
         THEN [panic |-> "index_out_of_range", attrs |-> attrs]
    ELSE FillAttrs([attrs EXCEPT ![(i \div 2) + 1] =
                        LogAttr(args[i + 1].val, args[i + 2])],
                   args, i + 2)

\* A handler call made by the package: Enabled(level) or Handle(record).
EnabledCall(h, level) == [handler |-> h, level |-> level]
HandleCall(h, r) == [handler |-> h, record |-> r]

\* doLog tagging every record with the default module name.
doLog_DefaultModule(l, msg, level, args) ==
    LET size == (Len(args) \div 2) + 1
        filled == FillAttrs([j \in 1..size |-> ZeroAttr], args, 0)
        attrs == [filled.attrs EXCEPT
                     ![size] = LogAttr(ATTR_KEY_MODULE, StrVal(DEFAULT_MODULE_NAME))]
    IN  IF filled.panic # "none"
        THEN [panic |-> filled.panic, handled |-> <<>>]
        ELSE [panic |-> "none",
              handled |-> <<HandleCall(l.handler, LogRecord(msg, attrs, level))>>]

\* doLog of logger l (rlog.go:59-80): the panic it ends in ("none" when it
\* returns) and the Handle calls it makes.
doLog(l, msg, level, args) ==
    LET size == (Len(args) \div 2) + 1
        filled == FillAttrs([j \in 1..size |-> ZeroAttr], args, 0)
        attrs == [filled.attrs EXCEPT
                     ![size] = LogAttr(ATTR_KEY_MODULE, StrVal(l.module))]
    IN  IF filled.panic # "none"
        THEN [panic |-> filled.panic, handled |-> <<>>]
        ELSE [panic |-> "none",
              handled |-> <<HandleCall(l.handler, LogRecord(msg, attrs, level))>>]

\* A levelled method that asks Enabled and logs whatever the answer.
LevelMethod_NoGate(l, level, msg, args, en) ==
    IF IsNil(l.handler)
    THEN [panic |-> "nil_dereference", asked |-> <<>>, answer |-> FALSE,
          handled |-> <<>>, trace |-> <<>>]
    ELSE LET d == doLog(l, msg, level, args)
         IN  [panic |-> d.panic, asked |-> <<EnabledCall(l.handler, level)>>,
              answer |-> en, handled |-> d.handled,
              trace |-> <<"Enabled", "doLog">> \o
                        [j \in 1..Len(d.handled) |-> "Handle"]]

\* The body shared by Debug, Info, Warn and Error (rlog.go:82-104) on logger l,
\* where en is the answer of l.handler.Enabled(level), as one atomic call: the
\* handler of l is then nil or whole, never half-written (the unsynchronized
\* call is GetEnabled and GetHandle below).  A method call on a nil interface
\* panics before the handler is reached.
LevelMethod(l, level, msg, args, en) ==
    IF IsNil(l.handler)
    THEN [panic |-> "nil_dereference", asked |-> <<>>, answer |-> FALSE,
          handled |-> <<>>, trace |-> <<>>]
    ELSE IF ~en
    THEN [panic |-> "none", asked |-> <<EnabledCall(l.handler, level)>>,
          answer |-> FALSE, handled |-> <<>>, trace |-> <<"Enabled">>]
    ELSE LET d == doLog(l, msg, level, args)
         IN  [panic |-> d.panic, asked |-> <<EnabledCall(l.handler, level)>>,
              answer |-> TRUE, handled |-> d.handled,
              trace |-> <<"Enabled", "doLog">> \o
                        [j \in 1..Len(d.handled) |-> "Handle"]]

---------------------------------------------------------------------------
\* What a public call did

Observation(op, ref, msg, args, ret, res) ==
    [op |-> op, logger |-> ref, msg |-> msg, args |-> args, ret |-> ret,
     panic |-> res.panic, asked |-> res.asked, answer |-> res.answer,
     handled |-> res.handled, trace |-> res.trace]

NoHandlerCalls(panic) ==
    [panic |-> panic, asked |-> <<>>, answer |-> FALSE, handled |-> <<>>,
     trace |-> <<>>]

NoObs == Observation("none", 0, "", <<>>, <<>>, NoHandlerCalls("none"))
NoCall == [method |-> "none", logger |-> 0, msg |-> "", args |-> <<>>, en |-> FALSE]
Idle == [h |-> NilWord, stage |-> "idle", words |-> {}, calls |-> 0]

Methods == {"Debug", "Info", "Warn", "Error"}

---------------------------------------------------------------------------
\* The levelled methods, each an atomic call on a logger the caller holds

Emit(op, ref, level, msg, args, en) ==
    /\ obs' = Observation(op, ref, msg, args, <<>>,
                          LevelMethod(heap[ref], level, msg, args, en))
    /\ UNCHANGED <<default_handler, heap, returned, installedAt, defaultRets>>

Debug(ref, msg, args, en) == Emit("Debug", ref, LogLevelDebug, msg, args, en)
Info(ref, msg, args, en) == Emit("Info", ref, LogLevelInfo, msg, args, en)
\* Warn logging at the level of Error.
Warn_AsError(ref, msg, args, en) == Emit("Warn", ref, LogLevelError, msg, args, en)
Warn(ref, msg, args, en) == Emit("Warn", ref, LogLevelWarn, msg, args, en)
Error(ref, msg, args, en) == Emit("Error", ref, LogLevelError, msg, args, en)

---------------------------------------------------------------------------
\* Registration and retrieval

\* The retrievals without their nil test.
HandlerNotSet_Never == FALSE
\* The test `_default_handler == nil` of both retrievals (rlog.go:116, 133).
HandlerNotSet == IsNil(default_handler)

\* SetRLogDefaultHandler without its second assignment.
SetRLogDefaultHandler_SlotOnly(h) ==
    /\ default_handler' = LogHandler(h)
    /\ heap' = heap
    /\ obs' = Observation("SetRLogDefaultHandler", 0, "", <<HandlerVal(h)>>, <<>>,
                          NoHandlerCalls("none"))
    /\ UNCHANGED <<returned, installedAt, defaultRets>>

\* SetRLogDefaultHandler(h) (rlog.go:110-113); h = NilWord passes the nil interface.
SetRLogDefaultHandler(h) ==
    /\ default_handler' = LogHandler(h)
    /\ heap' = [heap EXCEPT ![DefaultRef].handler = LogHandler(h)]
    /\ obs' = Observation("SetRLogDefaultHandler", 0, "", <<HandlerVal(h)>>, <<>>,
                          NoHandlerCalls("none"))
    /\ UNCHANGED <<returned, installedAt, defaultRets>>

\* GetLogger leaving the handler field of the new logger unset.
NewLogger_NoHandler(module) ==
    [ret |-> <<Len(heap) + 1>>,
     heap |-> Append(heap, r_logger(module, NilHandler))]

\* GetLogger renaming and returning the shared default logger.
NewLogger_ReusesDefault(module) ==
    [ret |-> <<DefaultRef>>,
     heap |-> [heap EXCEPT ![DefaultRef].module = module]]

\* The composite literal of GetLogger (rlog.go:137-140): a new _r_logger bound
\* to the value the slot holds now.
NewLogger(module) ==
    [ret |-> <<Len(heap) + 1>>,
     heap |-> Append(heap, r_logger(module, default_handler))]

\* GetLogger(module) (rlog.go:132-141): the panic, the reference returned and
\* the heap after the call.
GetLoggerResult(module) ==
    IF HandlerNotSet
    THEN [panic |-> "handler_not_set", ret |-> <<>>, heap |-> heap]
    ELSE [panic |-> "none", ret |-> NewLogger(module).ret,
          heap |-> NewLogger(module).heap]

\* GetDefaultLogger returning the shared logger whatever the slot holds.
GetDefaultLoggerResult_NoCheck ==
    [panic |-> "none", ret |-> <<DefaultRef>>, heap |-> heap]

\* GetDefaultLogger allocating a logger per call, as GetLogger does.
GetDefaultLoggerResult_Fresh == GetLoggerResult(DEFAULT_MODULE_NAME)

\* GetDefaultLogger() (rlog.go:115-121): the panic, the reference returned and
\* the heap after the call.
GetDefaultLoggerResult ==
    IF HandlerNotSet
    THEN [panic |-> "handler_not_set", ret |-> <<>>, heap |-> heap]
    ELSE [panic |-> "none", ret |-> <<DefaultRef>>, heap |-> heap]

\* The history of a retrieval that ended as res: the references handed out and,
\* for each logger allocated, the value the slot held.
Retrieve(op, cargs, res) ==
    /\ Len(res.heap) <= MaxLoggers + 1
    /\ heap' = res.heap
    /\ returned' = returned \cup {res.ret[j] : j \in 1..Len(res.ret)}
    /\ installedAt' = installedAt \o
           [j \in 1..(Len(res.heap) - Len(heap)) |-> default_handler]
    /\ obs' = Observation(op, 0, "", cargs, res.ret, NoHandlerCalls(res.panic))
    /\ UNCHANGED default_handler

\* defaultRets after GetDefaultLogger handed out ret (a sequence of at most one).
NoteDefault(ret) ==
    IF ret = <<>> THEN defaultRets
    ELSE IF defaultRets = <<>> THEN ret
    ELSE <<defaultRets[1]>> \o ret

GetDefaultLogger ==
    /\ Retrieve("GetDefaultLogger", <<>>, GetDefaultLoggerResult)
    /\ defaultRets' = NoteDefault(GetDefaultLoggerResult.ret)

GetLogger(module) ==
    /\ Retrieve("GetLogger", <<StrVal(module)>>, GetLoggerResult(module))
    /\ UNCHANGED defaultRets

---------------------------------------------------------------------------
\* The lifecycle specification: every public call is atomic

Init ==
    /\ default_handler = NilHandler
    /\ heap = <<r_logger(DEFAULT_MODULE_NAME, NilHandler)>>
    /\ returned = {}
    /\ installedAt = <<NilHandler>>
    /\ defaultRets = <<>>
    /\ obs = NoObs
    /\ call = NoCall
    /\ setter = Idle
    /\ getters = <<>>

Set ==
    /\ \E h \in Handlers \cup {NilWord} : SetRLogDefaultHandler(h)
    /\ UNCHANGED <<call, setter, getters>>

GetDefault ==
    /\ GetDefaultLogger
    /\ UNCHANGED <<call, setter, getters>>

Get ==
    /\ \E m \in SeqModules : GetLogger(m)
    /\ UNCHANGED <<call, setter, getters>>

CallDebug ==
    /\ \E ref \in returned, msg \in SeqMsgs, args \in ArgListsUpTo(MaxSeqArgs),
          en \in BOOLEAN : Debug(ref, msg, args, en)
    /\ UNCHANGED <<call, setter, getters>>

CallInfo ==
    /\ \E ref \in returned, msg \in SeqMsgs, args \in ArgListsUpTo(MaxSeqArgs),
          en \in BOOLEAN : Info(ref, msg, args, en)
    /\ UNCHANGED <<call, setter, getters>>

CallWarn ==
    /\ \E ref \in returned, msg \in SeqMsgs, args \in ArgListsUpTo(MaxSeqArgs),
          en \in BOOLEAN : Warn(ref, msg, args, en)
    /\ UNCHANGED <<call, setter, getters>>

CallError ==
    /\ \E ref \in returned, msg \in SeqMsgs, args \in ArgListsUpTo(MaxSeqArgs),
          en \in BOOLEAN : Error(ref, msg, args, en)
    /\ UNCHANGED <<call, setter, getters>>

Next ==
    \/ Set
    \/ GetDefault
    \/ Get
    \/ CallDebug
    \/ CallInfo
    \/ CallWarn
    \/ CallError

Spec == Init /\ [][Next]_vars

---------------------------------------------------------------------------
\* The per-call specification: Init draws a logger the package can hold (the
\* default logger, whose handler is the slot's, and a logger GetLogger made)
\* and one call with its inputs; the call is then made.

InitLog ==
    /\ \E h \in Handlers \cup {NilWord}, m \in Modules, g \in Handlers :
          /\ default_handler = LogHandler(h)
          /\ heap = <<r_logger(DEFAULT_MODULE_NAME, LogHandler(h)),
                      r_logger(m, LogHandler(g))>>
    /\ returned = {DefaultRef, DefaultRef + 1}
    /\ installedAt = <<NilHandler, heap[DefaultRef + 1].handler>>
    /\ defaultRets = <<DefaultRef>>
    /\ obs = NoObs
    /\ call \in [method : Methods, logger : returned, msg : Msgs,
                 args : ArgListsUpTo(MaxArgs), en : BOOLEAN]
    /\ setter = Idle
    /\ getters = <<>>

InvokeDebug ==
    /\ call.method = "Debug"
    /\ Debug(call.logger, call.msg, call.args, call.en)
    /\ call' = NoCall
    /\ UNCHANGED <<setter, getters>>

InvokeInfo ==
    /\ call.method = "Info"
    /\ Info(call.logger, call.msg, call.args, call.en)
    /\ call' = NoCall
    /\ UNCHANGED <<setter, getters>>

InvokeWarn ==
    /\ call.method = "Warn"
    /\ Warn(call.logger, call.msg, call.args, call.en)
    /\ call' = NoCall
    /\ UNCHANGED <<setter, getters>>

InvokeError ==
    /\ call.method = "Error"
    /\ Error(call.logger, call.msg, call.args, call.en)
    /\ call' = NoCall
    /\ UNCHANGED <<setter, getters>>

NextLog ==
    \/ InvokeDebug
    \/ InvokeInfo
    \/ InvokeWarn
    \/ InvokeError

SpecLog == InitLog /\ [][NextLog]_vars

---------------------------------------------------------------------------
\* The concurrent specification.  The package takes no lock, so a call to
\* SetRLogDefaultHandler is its two assignments (rlog.go:111, 112), each the
\* store of two words in an order the build chooses, and a retrieval is its
\* nil test followed by its return statement.  Other goroutines run between
\* any two of these steps.

Words == {"tab", "data"}
StoreWord(v, w, h) == IF w = "tab" THEN [v EXCEPT !.tab = h] ELSE [v EXCEPT !.data = h]

\* A goroutine that retrieves a logger and logs through it.  racing records
\* that a SetRLogDefaultHandler call was in progress at some moment from the
\* retrieval's nil test to its return, useRacing the same of the emission, from
\* its call of Enabled to its call of Handle; since is the number of
\* SetRLogDefaultHandler calls entered when the operation under way began.
Getter(op, module) ==
    [op |-> op, module |-> module, pc |-> "start", ret |-> <<>>,
     bound |-> NilHandler, racing |-> FALSE, useRacing |-> FALSE, since |-> 0,
     panic |-> "none"]

\* A SetRLogDefaultHandler call is in progress now, or one was entered since
\* the getter's operation began.
Overlaps(g) == setter.stage # "idle" \/ setter.calls # g.since

\* The state a completed start-up leaves: no handler yet, or one installed.
InitConc ==
    /\ \E h \in Handlers \cup {NilWord} :
          /\ default_handler = LogHandler(h)
          /\ heap = <<r_logger(DEFAULT_MODULE_NAME, LogHandler(h))>>
    /\ returned = {}
    /\ installedAt = <<NilHandler>>
    /\ defaultRets = <<>>
    /\ obs = NoObs
    /\ call = NoCall
    /\ setter = Idle
    /\ getters \in [1..NumGetters ->
                       {Getter("GetDefaultLogger", DEFAULT_MODULE_NAME)} \cup
                       {Getter("GetLogger", m) : m \in SeqModules}]

\* SetRLogDefaultHandler(h) is entered, h not nil.
SetBegin ==
    /\ setter.stage = "idle"
    /\ setter.calls < MaxSets
    /\ \E h \in Handlers :
          setter' = [h |-> h, stage |-> "slot", words |-> Words,
                     calls |-> setter.calls + 1]
    /\ UNCHANGED <<default_handler, heap, returned, installedAt, defaultRets, obs, call,
                   getters>>

\* One word of `_default_handler = h` (rlog.go:111).
SetStoreSlot ==
    /\ setter.stage = "slot"
    /\ \E w \in setter.words :
          /\ default_handler' = StoreWord(default_handler, w, setter.h)
          /\ setter' = IF setter.words = {w}
                       THEN [setter EXCEPT !.stage = "logger", !.words = Words]
                       ELSE [setter EXCEPT !.words = setter.words \ {w}]
    /\ UNCHANGED <<heap, returned, installedAt, defaultRets, obs, call, getters>>

\* One word of `_default_r_log.handler = h` (rlog.go:112); after the second
\* the call returns.
SetStoreLogger ==
    /\ setter.stage = "logger"
    /\ \E w \in setter.words :
          /\ heap' = [heap EXCEPT ![DefaultRef].handler =
                          StoreWord(heap[DefaultRef].handler, w, setter.h)]
          /\ setter' = IF setter.words = {w}
                       THEN [setter EXCEPT !.stage = "idle", !.words = {}]
                       ELSE [setter EXCEPT !.words = setter.words \ {w}]
    /\ UNCHANGED <<default_handler, returned, installedAt, defaultRets, obs, call, getters>>

\* The nil test of a retrieval (rlog.go:116-118, 133-135).
GetCheck(i) ==
    /\ getters[i].pc = "start"
    /\ getters' = [getters EXCEPT ![i] =
                       IF HandlerNotSet
                       THEN [@ EXCEPT !.pc = "panicked", !.panic = "handler_not_set"]
                       ELSE [@ EXCEPT !.pc = "checked",
                                      !.racing = (setter.stage # "idle"),
                                      !.since = setter.calls]]
    /\ UNCHANGED <<default_handler, heap, returned, installedAt, defaultRets, obs, call,
                   setter>>

\* The return statement of a retrieval (rlog.go:120, 137-140).  bound is the
\* handler of the logger returned, as the caller finds it on return.
GetReturn(i) ==
    /\ getters[i].pc = "checked"
    /\ LET res == IF getters[i].op = "GetLogger"
                  THEN NewLogger(getters[i].module)
                  ELSE [ret |-> <<DefaultRef>>, heap |-> heap]
       IN  /\ heap' = res.heap
           /\ returned' = returned \cup {res.ret[1]}
           /\ installedAt' = installedAt \o
                  [j \in 1..(Len(res.heap) - Len(heap)) |-> default_handler]
           /\ defaultRets' = IF getters[i].op = "GetDefaultLogger"
                             THEN NoteDefault(res.ret)
                             ELSE defaultRets
           /\ getters' = [getters EXCEPT ![i] =
                              [@ EXCEPT !.pc = "returned", !.ret = res.ret,
                                        !.bound = res.heap[res.ret[1]].handler,
                                        !.racing = (@ \/ Overlaps(getters[i])),
                                        !.since = 0]]
    /\ UNCHANGED <<default_handler, obs, call, setter>>

\* How a method call through the interface value h can end.  The method is
\* found through the type word and receives the data word: on the nil
\* interface the call panics; on a whole handler it runs; on a half-written
\* value the method of one handler runs on a nil or a foreign data word, which
\* it may dereference (a nil dereference, or a corrupted memory access) or not,
\* as the handler's type decides.
MethodCallOutcomes(h) ==
    IF IsNil(h) THEN {"nil_dereference"}
    ELSE IF h.data = h.tab THEN {"none"}
    ELSE IF h.data = NilWord THEN {"none", "nil_dereference"}
    ELSE {"none", "memory_corruption"}

\* The caller logs through the logger it was given, Info("x"): the first read
\* of l.handler and the call of Enabled (rlog.go:89), whose answer en is the
\* handler's; doLog follows when Enabled returned true.
GetEnabled(i) ==
    /\ getters[i].pc = "returned"
    /\ \E out \in MethodCallOutcomes(heap[getters[i].ret[1]].handler), en \in BOOLEAN :
          getters' = [getters EXCEPT ![i] =
                         [@ EXCEPT !.pc = IF out = "none" /\ en THEN "enabled" ELSE "used",
                                   !.panic = out,
                                   !.useRacing = (setter.stage # "idle"),
                                   !.since = IF out = "none" /\ en
                                             THEN setter.calls ELSE 0]]
    /\ UNCHANGED <<default_handler, heap, returned, installedAt, defaultRets, obs, call,
                   setter>>

\* doLog of the same call: the second read of l.handler and the call of Handle
\* (rlog.go:75), after Enabled returned true.
GetHandle(i) ==
    /\ getters[i].pc = "enabled"
    /\ \E out \in MethodCallOutcomes(heap[getters[i].ret[1]].handler) :
          getters' = [getters EXCEPT ![i] =
                         [@ EXCEPT !.pc = "used",
                                   !.panic = out,
                                   !.useRacing = (@ \/ Overlaps(getters[i])),
                                   !.since = 0]]
    /\ UNCHANGED <<default_handler, heap, returned, installedAt, defaultRets, obs, call,
                   setter>>

Check == \E i \in DOMAIN getters : GetCheck(i)
Return == \E i \in DOMAIN getters : GetReturn(i)
UseEnabled == \E i \in DOMAIN getters : GetEnabled(i)
UseHandle == \E i \in DOMAIN getters : GetHandle(i)

NextConc ==
    \/ SetBegin
    \/ SetStoreSlot
    \/ SetStoreLogger
    \/ Check
    \/ Return
    \/ UseEnabled
    \/ UseHandle

SpecConc == InitConc /\ [][NextConc]_vars

---------------------------------------------------------------------------
\* Vocabulary of the properties

\* The severity each method stands for.
MethodLevel(op) ==
    CASE op = "Debug" -> LogLevelDebug
      [] op = "Info" -> LogLevelInfo
      [] op = "Warn" -> LogLevelWarn
      [] op = "Error" -> LogLevelError

\* Every key position (the 1st, 3rd, ... argument) holds a string.
StringKeys(args) == \A i \in 1..Len(args) : i % 2 = 1 => args[i].kind = "string"
\* A well-formed list: key/value pairs with string keys.
WellFormed(args) == Len(args) % 2 = 0 /\ StringKeys(args)

\* The last call was a levelled method on a logger with a handler bound.
Emitted == obs.op \in Methods /\ ~IsNil(heap[obs.logger].handler)
\* The last call was a levelled method the handler enabled.
EmittedEnabled == Emitted /\ obs.answer

---------------------------------------------------------------------------
\* Properties of one call (SpecLog)

\* C1: a levelled method on a logger with a bound handler asks Enabled exactly
\* once, at the method's own severity and before anything else; when the answer
\* is false it builds no record and makes no Handle call; when the answer is
\* true and the list is well-formed it makes exactly one.
C1_EnabledGate ==
    Emitted =>
        /\ obs.asked = <<EnabledCall(heap[obs.logger].handler, MethodLevel(obs.op))>>
        /\ obs.trace # <<>>
        /\ obs.trace[1] = "Enabled"
        /\ \A j \in 2..Len(obs.trace) : obs.trace[j] # "Enabled"
        /\ ~obs.answer =>
              obs.handled = <<>> /\ obs.trace = <<"Enabled">> /\ obs.panic = "none"
        /\ obs.answer /\ WellFormed(obs.args) => Len(obs.handled) = 1

\* A Debug call with two pairs that the handler disabled: nothing was handled.
C1_Witness ==
    /\ Emitted
    /\ obs.op = "Debug"
    /\ ~obs.answer
    /\ Len(obs.args) = 4
    /\ WellFormed(obs.args)
    /\ obs.handled = <<>>

\* C2: the record of an enabled call with the well-formed list k1,v1,...,kn,vn
\* has n+1 attributes: {ki, vi} in input order, then {"module", M} with M the
\* module name of the logger; the default logger's M is "default".
C2_Attrs ==
    /\ heap[DefaultRef].module = DEFAULT_MODULE_NAME
    /\ EmittedEnabled /\ WellFormed(obs.args) =>
          /\ Len(obs.handled) = 1
          /\ LET n == Len(obs.args) \div 2
                 attrs == obs.handled[1].record.Attrs
             IN  /\ Len(attrs) = n + 1
                 /\ \A i \in 1..n :
                       attrs[i] = LogAttr(obs.args[2 * i - 1].val, obs.args[2 * i])
                 /\ attrs[n + 1] =
                       LogAttr("module", StrVal(heap[obs.logger].module))

\* An enabled call with two different pairs on a logger GetLogger("ext") made.
C2_Witness ==
    /\ EmittedEnabled
    /\ WellFormed(obs.args)
    /\ Len(obs.args) = 4
    /\ obs.args[2] # obs.args[4]
    /\ heap[obs.logger].module = "ext"
    /\ Len(obs.handled) = 1
    /\ Len(obs.handled[1].record.Attrs) = 3

\* C3: no call makes two Handle calls, and an enabled call with a well-formed
\* list makes exactly one, on the logger's handler, before it returns, with the
\* message given and the level of the method called.
C3_OneHandle ==
    obs.op \in Methods =>
        /\ Len(obs.handled) <= 1
        /\ EmittedEnabled /\ WellFormed(obs.args) =>
              /\ obs.panic = "none"
              /\ obs.trace = <<"Enabled", "doLog", "Handle">>
              /\ Len(obs.handled) = 1
              /\ obs.handled[1].handler = heap[obs.logger].handler
              /\ obs.handled[1].record.Message = obs.msg
              /\ obs.handled[1].record.Level = MethodLevel(obs.op)

\* An enabled Warn("x", k, v) that reached the handler at level Warn.
C3_Witness ==
    /\ EmittedEnabled
    /\ obs.op = "Warn"
    /\ obs.msg = "x"
    /\ Len(obs.args) = 2
    /\ Len(obs.handled) = 1
    /\ obs.handled[1].record.Level = LogLevelWarn

\* C8 as stated: a call with a list of odd length hands the handler nothing;
\* enabled, it ends in an out-of-bounds panic; disabled, it returns normally
\* having only asked Enabled.
C8_OddListOutOfBounds ==
    Emitted /\ Len(obs.args) % 2 = 1 =>
        /\ obs.handled = <<>>
        /\ obs.answer => obs.panic = "index_out_of_range"
        /\ ~obs.answer => obs.panic = "none" /\ obs.trace = <<"Enabled">>

\* C8 amended: a call with a list of odd length hands the handler nothing;
\* enabled, it panics before Handle, out of bounds at the missing value when
\* every key is a string and at the string assertion of the first other key
\* when not; disabled, it returns normally having only asked Enabled.
C8_OddListPanics ==
    Emitted /\ Len(obs.args) % 2 = 1 =>
        /\ obs.handled = <<>>
        /\ \A j \in 1..Len(obs.trace) : obs.trace[j] # "Handle"
        /\ obs.answer =>
              obs.panic = IF StringKeys(obs.args) THEN "index_out_of_range"
                          ELSE "type_assertion"
        /\ ~obs.answer => obs.panic = "none" /\ obs.trace = <<"Enabled">>

\* An enabled call with one pair and a lone string key ran out of bounds.
C8_Witness ==
    /\ EmittedEnabled
    /\ Len(obs.args) = 3
    /\ StringKeys(obs.args)
    /\ obs.panic = "index_out_of_range"
    /\ obs.handled = <<>>

---------------------------------------------------------------------------
\* Properties of the lifecycle (Spec)

Retrievals == {"GetLogger", "GetDefaultLogger"}

\* C4: a retrieval made while the slot is nil panics, returns no logger and
\* leaves the slot, the heap and the loggers handed out as they were; a retrieval
\* that returns a logger found the slot set, and the logger is bound to the
\* slot's handler.
C4_NoHandlerPanics ==
    [][obs'.op \in Retrievals =>
          /\ IsNil(default_handler) =>
                /\ obs'.panic = "handler_not_set"
                /\ obs'.ret = <<>>
                /\ default_handler' = default_handler
                /\ heap' = heap
                /\ returned' = returned
          /\ obs'.ret # <<>> =>
                /\ ~IsNil(default_handler)
                /\ heap'[obs'.ret[1]].handler = default_handler]_vars

\* GetLogger panicked after the handler was reset to nil, loggers being out.
C4_Witness ==
    /\ obs.op = "GetLogger"
    /\ obs.panic = "handler_not_set"
    /\ obs.ret = <<>>
    /\ IsNil(default_handler)
    /\ returned # {}

\* C5 as stated: every record a logger handed out delivers goes to the handler
\* the slot holds, the one last passed to SetRLogDefaultHandler.
C5_ToCurrentHandler ==
    obs.op \in Methods =>
        \A j \in 1..Len(obs.handled) : obs.handled[j].handler = default_handler

\* C5 amended: an enabled call through the default logger goes to the handler
\* the slot holds (last write wins); an enabled call through a logger GetLogger
\* made goes to the handler the slot held when GetLogger made it; Enabled is
\* asked of that handler and no other handler is called.
C5_ToBoundHandler ==
    obs.op \in Methods =>
        LET target == IF obs.logger = DefaultRef THEN default_handler
                      ELSE installedAt[obs.logger]
        IN  /\ ~IsNil(target) =>
                  /\ Len(obs.asked) = 1
                  /\ obs.answer /\ WellFormed(obs.args) => Len(obs.handled) = 1
            /\ \A j \in 1..Len(obs.asked) : obs.asked[j].handler = target
            /\ \A j \in 1..Len(obs.handled) : obs.handled[j].handler = target

\* A logger GetLogger made delivered a record to the handler of its making
\* after SetRLogDefaultHandler had installed another.
C5_Witness ==
    /\ obs.op \in Methods
    /\ obs.logger # DefaultRef
    /\ Len(obs.handled) = 1
    /\ obs.handled[1].handler = installedAt[obs.logger]
    /\ obs.handled[1].handler # default_handler
    /\ ~IsNil(default_handler)

\* C6 as stated: no step changes the module or the handler of a logger that
\* has been handed out.
C6_NeverMutated ==
    [][\A r \in returned : heap'[r] = heap[r]]_vars

\* C6 amended: no step changes the module of a logger that has been handed
\* out, nor the handler of one GetLogger made, which stays the one the slot
\* held at its making; the handler of the default logger is the slot's after
\* every step, so SetRLogDefaultHandler rebinds it.
C6_OnlyDefaultRebound ==
    [][\A r \in returned :
          /\ heap'[r].module = heap[r].module
          /\ r # DefaultRef =>
                heap'[r].handler = heap[r].handler /\ heap[r].handler = installedAt[r]
          /\ r = DefaultRef => heap'[r].handler = default_handler']_vars

\* SetRLogDefaultHandler ran with the default logger and a GetLogger logger
\* handed out: the first follows the slot, the second kept its handler.
C6_Witness ==
    /\ obs.op = "SetRLogDefaultHandler"
    /\ DefaultRef \in returned
    /\ heap[DefaultRef].handler = default_handler
    /\ \E r \in returned \ {DefaultRef} :
          heap[r].handler # default_handler /\ heap[r].handler = installedAt[r]

\* C7: any two loggers GetDefaultLogger returned carry the module name
\* "default" and, called in the same state with the same method, message, list
\* and Enabled answer, make the same handler calls with the same records.
C7_DefaultIdempotent ==
    \A a \in DOMAIN defaultRets, b \in DOMAIN defaultRets :
        /\ heap[defaultRets[a]].module = DEFAULT_MODULE_NAME
        /\ \A level \in LogLevel, msg \in SeqMsgs, args \in ArgListsUpTo(MaxSeqArgs),
              en \in BOOLEAN :
              LevelMethod(heap[defaultRets[a]], level, msg, args, en) =
                  LevelMethod(heap[defaultRets[b]], level, msg, args, en)

\* GetDefaultLogger returned twice, SetRLogDefaultHandler having run since a
\* GetLogger logger was made, and the logger then delivered a record.
C7_Witness ==
    /\ Len(defaultRets) = 2
    /\ obs.op \in Methods
    /\ obs.logger = defaultRets[2]
    /\ Len(obs.handled) = 1
    /\ \E r \in returned \ {DefaultRef} : heap[r].handler # default_handler

\* C10: with every public call atomic, the default logger's handler is the
\* slot's and its module "default" in every state, both nil at the start and
\* both h after SetRLogDefaultHandler(h); no other call writes either.
C10_DefaultFollowsSlot ==
    /\ IsNil(default_handler) /\ IsNil(heap[DefaultRef].handler)
    /\ [](/\ heap[DefaultRef].handler = default_handler
          /\ heap[DefaultRef].module = DEFAULT_MODULE_NAME)
    /\ [][/\ obs'.op = "SetRLogDefaultHandler" =>
                default_handler' = LogHandler(obs'.args[1].val)
          /\ obs'.op # "SetRLogDefaultHandler" =>
                default_handler' = default_handler /\ heap'[DefaultRef] = heap[DefaultRef]
         ]_vars

\* SetRLogDefaultHandler("h2") replaced another handler, loggers being out.
C10_Witness ==
    /\ obs.op = "SetRLogDefaultHandler"
    /\ obs.args = <<HandlerVal("h2")>>
    /\ default_handler = LogHandler("h2")
    /\ heap[DefaultRef].handler = LogHandler("h2")
    /\ \E r \in returned \ {DefaultRef} : heap[r].handler = LogHandler("h1")

---------------------------------------------------------------------------
\* Properties of the unsynchronized calls (SpecConc)

Returned(g) == g.pc \in {"returned", "enabled", "used"}
\* A handler value that is one installed handler, both words.
IsWhole(h) == ~IsNil(h) /\ h.data = h.tab

\* C9 as stated: with the steps of SetRLogDefaultHandler(h), h not nil,
\* interleaved with the retrievals, every retrieval that returns hands out a
\* logger whose handler is not nil, and a call through it does not dereference
\* a nil handler.
C9_RetrievedIsBound ==
    \A i \in DOMAIN getters :
        Returned(getters[i]) =>
            ~IsNil(getters[i].bound) /\ getters[i].panic # "nil_dereference"

\* C9 amended: under the same interleavings every retrieval that returns and
\* that no SetRLogDefaultHandler call overlaps hands out a logger whose handler
\* is one installed handler, whole and not nil; a call through such a logger
\* ends without a panic when GetLogger made it, and also through the default
\* logger when no SetRLogDefaultHandler call overlaps the call.  The logger of
\* a GetLogger that SetRLogDefaultHandler overlaps has a handler that passes
\* the nil test, no more.
C9_BoundOutsideSet ==
    \A i \in DOMAIN getters :
        Returned(getters[i]) =>
            /\ getters[i].op = "GetLogger" => ~IsNil(getters[i].bound)
            /\ ~getters[i].racing => IsWhole(getters[i].bound)
            /\ ~getters[i].racing /\
               (getters[i].op = "GetLogger" \/ ~getters[i].useRacing) =>
                  getters[i].panic = "none"

\* GetLogger returned in the middle of SetRLogDefaultHandler(h) with a
\* half-written handler, h's type word over a nil data word: the handler passed
\* the nil test, and the call through the logger dereferenced nil.
C9_Witness ==
    \E i \in DOMAIN getters :
        /\ getters[i].op = "GetLogger"
        /\ getters[i].pc = "used"
        /\ getters[i].racing
        /\ ~IsNil(getters[i].bound)
        /\ getters[i].bound.tab = setter.h
        /\ getters[i].bound.data = NilWord
        /\ getters[i].panic = "nil_dereference"
        /\ setter.calls > 0

====
